---- MODULE Spec2Model ----
(***************************************************************************)
(* The user CRUD service of main.go: main() opens the database handle and  *)
(* registers five gin handlers; every handler decodes its request, issues  *)
(* at most one SQL statement on the shared handle and writes one response. *)
(* The users table (init.sql) is a set of rows with an AUTO_INCREMENT      *)
(* primary key.  A handler makes one storage call and shares no in-process *)
(* state with the others, so each handler is one atomic action: the only   *)
(* point where two requests meet is the statement the storage executes.    *)
(*                                                                         *)
(* Strings (names, emails, path identifiers) are sequences of characters,  *)
(* so that lengths and string-to-number conversions are computed.          *)
(***************************************************************************)
EXTENDS Integers, Sequences, FiniteSets, TLC

VARIABLES
    pc,        \* position of main(): "start", "serving" or "fatal"
    dsnValid,  \* whether the DSN built from the environment parses
    dbUp,      \* whether the database server answers right now
    users,     \* the rows of table users: records [id, name, email]
    autoInc,   \* the table's next AUTO_INCREMENT value
    req,       \* the last request handled: [op, id, body]
    resp,      \* the response written for it: [status, kind, user, users]
    stmts,     \* number of SQL statements the last request issued
    track,     \* which history is recorded: "none", "created" or "deleted"
    created,   \* history: id -> [user, intact] for every Create answered 201
    deleted    \* history: id -> BOOLEAN for every Delete answered 204

vars == <<pc, dsnValid, dbUp, users, autoInc, req, resp, stmts, track, created, deleted>>

----------------------------------------------------------------------------
(* Bounds of the model *)

\* Creates are explored until the counter has handed out this identifier.
MaxId == 4

(* VARCHAR(100) of columns name and email *)
VarcharLen == 100

----------------------------------------------------------------------------
(* Strings *)

Digits == <<"0", "1", "2", "3", "4", "5", "6", "7", "8", "9">>

IsDigit(c) == \E i \in 1..10 : Digits[i] = c

DigitVal(c) == (CHOOSE i \in 1..10 : Digits[i] = c) - 1

\* value of a string of digits, most significant first
RECURSIVE DigitsVal(_)
DigitsVal(s) ==
    IF s = <<>> THEN 0
    ELSE 10 * DigitsVal(SubSeq(s, 1, Len(s) - 1)) + DigitVal(s[Len(s)])

\* decimal text of a natural number (strconv.Itoa, as a client formats an id)
RECURSIVE Itoa(_)
Itoa(n) ==
    IF n < 10 THEN <<Digits[n + 1]>>
    ELSE Itoa(n \div 10) \o <<Digits[(n % 10) + 1]>>

HasSign(s) == Len(s) > 0 /\ s[1] \in {"+", "-"}

Unsigned(s) == IF HasSign(s) THEN Tail(s) ELSE s

Signed(s, n) == IF HasSign(s) /\ s[1] = "-" THEN 0 - n ELSE n

\* strconv.Atoi: an optional sign followed by one or more digits, nothing else
Atoi(s) ==
    LET u == Unsigned(s)
    IN  IF Len(u) > 0 /\ \A i \in 1..Len(u) : IsDigit(u[i])
        THEN [err |-> FALSE, val |-> Signed(s, DigitsVal(u))]
        ELSE [err |-> TRUE, val |-> 0]

\* The storage layer compares the INT column id with a string parameter by
\* converting the string to a number: its longest numeric prefix, 0 if none.
MySQLNum(s) ==
    LET u == Unsigned(s)
        k == CHOOSE j \in 0..Len(u) :
                 /\ \A i \in 1..j : IsDigit(u[i])
                 /\ (j < Len(u) => ~IsDigit(u[j + 1]))
    IN  Signed(s, DigitsVal(SubSeq(u, 1, k)))

----------------------------------------------------------------------------
(* Values *)

Str(s) == [t |-> "str", v |-> s]
Num(n) == [t |-> "num", v |-> n]

Ann      == <<"A", "n", "n">>
AnnMail  == <<"a", "n", "n", "@", "x", ".", "c", "o", "m">>
Bob      == <<"B", "o", "b">>
John     == <<"J", "o", "h", "n", " ", "D", "o", "e">>
JohnMail == <<"j", "o", "h", "n", "@", "e", "x", "a", "m", "p", "l", "e", ".", "c", "o", "m">>
Jane     == <<"J", "a", "n", "e", " ", "S", "m", "i", "t", "h">>
JaneMail == <<"j", "a", "n", "e", "@", "e", "x", "a", "m", "p", "l", "e", ".", "c", "o", "m">>
TooLong  == [i \in 1..(VarcharLen + 1) |-> "a"]

\* type User struct: the zero value of `var user User`
User == [ID |-> 0, Name |-> <<>>, Email |-> <<>>]

\* rows inserted by init.sql into the empty table
SeedRows ==
    { [id |-> 1, name |-> John, email |-> JohnMail],
      [id |-> 2, name |-> Jane, email |-> JaneMail] }

\* Request bodies: JSON text, as an object of fields or text that is no JSON.
Bodies ==
    { [kind |-> "object", fields |-> [f \in {"name", "email"} |->
                                        IF f = "name" THEN Str(Ann) ELSE Str(AnnMail)]],
      [kind |-> "object", fields |-> [f \in {"id", "name"} |->
                                        IF f = "id" THEN Num(1) ELSE Str(Bob)]],
      [kind |-> "object", fields |-> [f \in {"name", "email"} |->
                                        IF f = "name" THEN Str(TooLong) ELSE Str(AnnMail)]],
      [kind |-> "object", fields |-> [f \in {"name"} |-> Num(5)]],
      [kind |-> "malformed", fields |-> <<>>] }

NoBody == [kind |-> "none", fields |-> <<>>]

\* Path parameters :id the router hands to a handler (never empty).
PathIds == { <<"1">>, <<"2">>, <<"3">>, <<"4">>, <<"x">>, <<"1", "x">> }

----------------------------------------------------------------------------
(* The storage layer: table users of init.sql behind the handle db.         *)
(* Every statement fails while the server does not answer.                  *)

Ids(t) == {r.id : r \in t}

\* WHERE id = n
WhereId(t, n) == {r \in t : r.id = n}

\* the rows of a table scan, in primary-key order
RECURSIVE Scan(_)
Scan(t) ==
    IF t = {} THEN <<>>
    ELSE LET r == CHOOSE x \in t : \A y \in t : x.id <= y.id
         IN  <<r>> \o Scan(t \ {r})

\* a VARCHAR(100) NOT NULL column rejects a longer value (strict SQL mode)
Fits(s) == Len(s) <= VarcharLen

\* the value AUTO_INCREMENT gives the next row
\* (a counter that does not advance)
NextAutoIncStuck(ai) == ai
NextAutoInc(ai) == ai + 1

\* SELECT id, name, email FROM users
SelectAll(t, up) ==
    [err |-> ~up, rows |-> IF up THEN Scan(t) ELSE <<>>]

\* SELECT id, name, email FROM users WHERE id = ?   (one row, or ErrNoRows)
SelectById(t, up, id) ==
    LET m == WhereId(t, MySQLNum(id))
    IN  [err |-> ~up \/ m = {}, rows |-> IF up THEN Scan(m) ELSE <<>>]

\* (an insert that numbers the row one past the highest stored id)
InsertUserMaxPlusOne(t, ai, up, name, email) ==
    LET id == IF t = {} THEN 1 ELSE (CHOOSE x \in Ids(t) : \A y \in Ids(t) : y <= x) + 1
    IN  IF up /\ Fits(name) /\ Fits(email)
        THEN [err |-> FALSE,
              users |-> t \cup {[id |-> id, name |-> name, email |-> email]},
              autoInc |-> IF id >= ai THEN id + 1 ELSE ai, lastInsertId |-> id]
        ELSE [err |-> TRUE, users |-> t, autoInc |-> ai, lastInsertId |-> 0]

\* INSERT INTO users (name, email) VALUES (?, ?)
InsertUser(t, ai, up, name, email) ==
    IF up /\ Fits(name) /\ Fits(email)
    THEN [err |-> FALSE,
          users |-> t \cup {[id |-> ai, name |-> name, email |-> email]},
          autoInc |-> NextAutoInc(ai), lastInsertId |-> ai]
    ELSE [err |-> TRUE, users |-> t, autoInc |-> ai, lastInsertId |-> 0]

\* (an update without its WHERE clause)
UpdateUserAll(t, up, name, email, n) ==
    IF up /\ (t = {} \/ (Fits(name) /\ Fits(email)))
    THEN [err |-> FALSE, users |-> {[r EXCEPT !.name = name, !.email = email] : r \in t}]
    ELSE [err |-> TRUE, users |-> t]

\* UPDATE users SET name = ?, email = ? WHERE id = ?
UpdateUser(t, up, name, email, n) ==
    LET m == WhereId(t, n)
    IN  IF up /\ (m = {} \/ (Fits(name) /\ Fits(email)))
        THEN [err |-> FALSE,
              users |-> (t \ m) \cup {[r EXCEPT !.name = name, !.email = email] : r \in m}]
        ELSE [err |-> TRUE, users |-> t]

\* DELETE FROM users WHERE id = ?
\* The parameter is the path string.  A string that is no number is converted
\* with a truncation warning, which a data-changing statement reports either
\* as a warning or, under strict SQL mode, as an error: `rejects` is that choice.
DeleteUser(t, up, rejects, id) ==
    IF up /\ ~(rejects /\ Atoi(id).err)
    THEN [err |-> FALSE, users |-> t \ WhereId(t, MySQLNum(id))]
    ELSE [err |-> TRUE, users |-> t]

----------------------------------------------------------------------------
(* The handlers.  Each yields the table and counter it leaves, the response *)
(* it writes and the number of SQL statements it issued.                    *)

\* (a scan with its destinations in the wrong order)
ScanUserSwapped(r) == [ID |-> r.id, Name |-> r.email, Email |-> r.name]

\* rows.Scan(&user.ID, &user.Name, &user.Email)
ScanUser(r) == [ID |-> r.id, Name |-> r.name, Email |-> r.email]

Field(b, f, t, zero) ==
    IF f \in DOMAIN b.fields /\ b.fields[f].t = t THEN b.fields[f].v ELSE zero

\* c.ShouldBindJSON(&user): fails on text that is no JSON and on a field of the
\* wrong JSON type; unknown fields are ignored, missing ones keep the zero value
ShouldBindJSON(b) ==
    IF b.kind = "object" /\ \A f \in DOMAIN b.fields :
           b.fields[f].t = (IF f = "id" THEN "num" ELSE "str")
    THEN [err |-> FALSE,
          user |-> [ID |-> Field(b, "id", "num", User.ID),
                    Name |-> Field(b, "name", "str", User.Name),
                    Email |-> Field(b, "email", "str", User.Email)]]
    ELSE [err |-> TRUE, user |-> User]

\* c.JSON(status, gin.H{"error": ...})
JSONError(status) == [status |-> status, kind |-> "error", user |-> User, users |-> <<>>]
\* c.JSON(status, user)
JSONUser(status, u) == [status |-> status, kind |-> "user", user |-> u, users |-> <<>>]
\* c.JSON(status, users)
JSONUsers(status, us) == [status |-> status, kind |-> "users", user |-> User, users |-> us]
\* c.Status(status)
StatusOnly(status) == [status |-> status, kind |-> "empty", user |-> User, users |-> <<>>]

Out(t, ai, r, n) == [users |-> t, autoInc |-> ai, resp |-> r, stmts |-> n]

\* (a listing that reads one row with `if rows.Next()` instead of looping)
getUsersFirstOnly(t, ai, up) ==
    LET q == SelectAll(t, up)
    IN  IF q.err THEN Out(t, ai, JSONError(500), 1)
        ELSE Out(t, ai, JSONUsers(200, [i \in 1..(IF Len(q.rows) > 0 THEN 1 ELSE 0) |->
                                          ScanUser(q.rows[i])]), 1)

getUsers(t, ai, up) ==
    LET q == SelectAll(t, up)
    IN  IF q.err THEN Out(t, ai, JSONError(500), 1)
        ELSE Out(t, ai, JSONUsers(200, [i \in 1..Len(q.rows) |-> ScanUser(q.rows[i])]), 1)

\* (a lookup that tells a failed query from an empty one)
getUserReports500(t, ai, up, id) ==
    LET q == SelectById(t, up, id)
    IN  IF ~up THEN Out(t, ai, JSONError(500), 1)
        ELSE IF q.err THEN Out(t, ai, JSONError(404), 1)
        ELSE Out(t, ai, JSONUser(200, ScanUser(q.rows[1])), 1)

getUser(t, ai, up, id) ==
    LET q == SelectById(t, up, id)
    IN  IF q.err THEN Out(t, ai, JSONError(404), 1)
        ELSE Out(t, ai, JSONUser(200, ScanUser(q.rows[1])), 1)

\* (a create that reads the row back with a second statement)
createUserReadsBack(t, ai, up, body) ==
    LET b == ShouldBindJSON(body)
        x == InsertUser(t, ai, up, b.user.Name, b.user.Email)
        q == SelectById(x.users, up, Itoa(x.lastInsertId))
    IN  IF b.err THEN Out(t, ai, JSONError(400), 0)
        ELSE IF x.err THEN Out(x.users, x.autoInc, JSONError(500), 1)
        ELSE Out(x.users, x.autoInc, JSONUser(201, ScanUser(q.rows[1])), 2)

createUser(t, ai, up, body) ==
    LET b == ShouldBindJSON(body)
        x == InsertUser(t, ai, up, b.user.Name, b.user.Email)
    IN  IF b.err THEN Out(t, ai, JSONError(400), 0)
        ELSE IF x.err THEN Out(x.users, x.autoInc, JSONError(500), 1)
        ELSE Out(x.users, x.autoInc,
                 JSONUser(201, [b.user EXCEPT !.ID = x.lastInsertId]), 1)

\* (an update that drops the error of strconv.Atoi and goes on with id 0)
updateUserNoIdCheck(t, ai, up, id, body) ==
    LET a == Atoi(id)
        b == ShouldBindJSON(body)
        x == UpdateUser(t, up, b.user.Name, b.user.Email, a.val)
    IN  IF b.err THEN Out(t, ai, JSONError(400), 0)
        ELSE IF x.err THEN Out(x.users, ai, JSONError(500), 1)
        ELSE Out(x.users, ai, JSONUser(200, [b.user EXCEPT !.ID = a.val]), 1)

\* (an update that answers 404 when no row matched)
updateUserChecksRows(t, ai, up, id, body) ==
    LET a == Atoi(id)
        b == ShouldBindJSON(body)
        x == UpdateUser(t, up, b.user.Name, b.user.Email, a.val)
    IN  IF a.err THEN Out(t, ai, JSONError(400), 0)
        ELSE IF b.err THEN Out(t, ai, JSONError(400), 0)
        ELSE IF x.err THEN Out(x.users, ai, JSONError(500), 1)
        ELSE IF WhereId(t, a.val) = {} THEN Out(x.users, ai, JSONError(404), 1)
        ELSE Out(x.users, ai, JSONUser(200, [b.user EXCEPT !.ID = a.val]), 1)

updateUser(t, ai, up, id, body) ==
    LET a == Atoi(id)
        b == ShouldBindJSON(body)
        x == UpdateUser(t, up, b.user.Name, b.user.Email, a.val)
    IN  IF a.err THEN Out(t, ai, JSONError(400), 0)
        ELSE IF b.err THEN Out(t, ai, JSONError(400), 0)
        ELSE IF x.err THEN Out(x.users, ai, JSONError(500), 1)
        ELSE Out(x.users, ai, JSONUser(200, [b.user EXCEPT !.ID = a.val]), 1)

deleteUser(t, ai, up, rejects, id) ==
    LET x == DeleteUser(t, up, rejects, id)
    IN  IF x.err THEN Out(x.users, ai, JSONError(500), 1)
        ELSE Out(x.users, ai, StatusOnly(204), 1)

----------------------------------------------------------------------------
(* History, read by the properties only *)

Put(f, k, v) == [x \in DOMAIN f \cup {k} |-> IF x = k THEN v ELSE f[x]]

\* a Create answered 201 is remembered; a later UPDATE or DELETE statement
\* addressed to its id marks the record as no longer intact
CreatedAfter(op, n, o) ==
    IF track # "created" THEN created
    ELSE IF op = "create" /\ o.resp.status = 201
         THEN Put(created, o.resp.user.ID, [user |-> o.resp.user, intact |-> TRUE])
    ELSE IF op \in {"update", "delete"} /\ o.resp.status \in {200, 204} /\ n \in DOMAIN created
         THEN Put(created, n, [created[n] EXCEPT !.intact = FALSE])
    ELSE created

\* a Delete answered 204 is remembered with whether the counter had already
\* passed the identifier (or will never reach it) when it was answered
DeletedAfter(op, n, o) ==
    IF track = "deleted" /\ op = "delete" /\ o.resp.status = 204
    THEN Put(deleted, n, (n \in DOMAIN deleted /\ deleted[n]) \/ n < autoInc)
    ELSE deleted

----------------------------------------------------------------------------
(* The process *)

NoReq  == [op |-> "none", id |-> <<>>, body |-> NoBody]
NoResp == [status |-> 0, kind |-> "none", user |-> User, users |-> <<>>]

InitWith(tr) ==
    /\ pc = "start"
    /\ dsnValid \in BOOLEAN
    /\ dbUp \in BOOLEAN
    /\ users = SeedRows
    /\ autoInc = Cardinality(SeedRows) + 1
    /\ req = NoReq
    /\ resp = NoResp
    /\ stmts = 0
    /\ track = tr
    /\ created = <<>>
    /\ deleted = <<>>

Init == InitWith("none")
InitCreated == InitWith("created")
InitDeleted == InitWith("deleted")

\* sql.Open("mysql", dbURI) parses the DSN and returns a handle; it opens no
\* connection, so it does not see whether the server answers
sqlOpen(dsnOK, up) == [err |-> ~dsnOK]

\* main(): open the handle, log.Fatal on error, else register routes and serve
Main ==
    /\ pc = "start"
    /\ pc' = IF sqlOpen(dsnValid, dbUp).err THEN "fatal" ELSE "serving"
    /\ UNCHANGED <<dsnValid, dbUp, users, autoInc, req, resp, stmts, track, created, deleted>>

\* the database server stops or resumes answering
DbFlip ==
    /\ pc \in {"start", "serving"}
    /\ dbUp' = ~dbUp
    /\ UNCHANGED <<pc, dsnValid, users, autoInc, req, resp, stmts, track, created, deleted>>

\* one request, routed to its handler and answered
Handle(op, id, body, n, o) ==
    /\ pc = "serving"
    /\ req' = [op |-> op, id |-> id, body |-> body]
    /\ users' = o.users
    /\ autoInc' = o.autoInc
    /\ resp' = o.resp
    /\ stmts' = o.stmts
    /\ created' = CreatedAfter(op, n, o)
    /\ deleted' = DeletedAfter(op, n, o)
    /\ UNCHANGED <<pc, dsnValid, dbUp, track>>

GetUsers == Handle("list", <<>>, NoBody, 0, getUsers(users, autoInc, dbUp))

GetUser == \E id \in PathIds :
    Handle("get", id, NoBody, MySQLNum(id), getUser(users, autoInc, dbUp, id))

CreateUser == \E body \in Bodies :
    /\ autoInc <= MaxId
    /\ Handle("create", <<>>, body, 0, createUser(users, autoInc, dbUp, body))

UpdateUserReq == \E id \in PathIds, body \in Bodies :
    Handle("update", id, body, Atoi(id).val, updateUser(users, autoInc, dbUp, id, body))

DeleteUserReq == \E id \in PathIds, rejects \in BOOLEAN :
    Handle("delete", id, NoBody, MySQLNum(id), deleteUser(users, autoInc, dbUp, rejects, id))

Next ==
    \/ Main
    \/ DbFlip
    \/ GetUsers
    \/ GetUser
    \/ CreateUser
    \/ UpdateUserReq
    \/ DeleteUserReq

Spec == Init /\ [][Next]_vars
SpecCreated == InitCreated /\ [][Next]_vars
SpecDeleted == InitDeleted /\ [][Next]_vars

----------------------------------------------------------------------------
(* Properties *)

\* a step in which a handler answers a request of kind op
ReqStep(op) == pc = "serving" /\ dbUp' = dbUp /\ req'.op = op

Intact == {n \in DOMAIN created : created[n].intact}

InList(u, us) == \E i \in 1..Len(us) : us[i] = u

\* C1 as stated: a Get of the identifier a Create returned, with no update or
\* delete of that identifier in between, answers 200 with the created record.
C1_RoundTripAlways ==
    \A n \in Intact :
        (req.op = "get" /\ req.id = Itoa(n))
            => (resp.status = 200 /\ resp.user = created[n].user)

\* C1 amended: such a Get answers 200 with a record whose id, name and email
\* equal the created one's whenever its storage query succeeds, and 404 (never
\* another record) when the query fails.
C1_RoundTrip ==
    [][ReqStep("get") =>
         \A n \in Intact :
            req'.id = Itoa(n) =>
                IF dbUp THEN resp'.status = 200 /\ resp'.user = created[n].user
                ELSE resp'.status = 404]_vars

C1_Witness ==
    /\ req.op = "get" /\ resp.status = 200
    /\ \E n \in Intact :
          /\ req.id = Itoa(n)
          /\ resp.user = created[n].user
          /\ resp.user.Name = Bob

\* C2 as stated: once a Delete of an identifier has answered 204, every later
\* Get of that identifier answers 404.
C2_DeletedNeverServed ==
    (req.op = "get" /\ MySQLNum(req.id) \in DOMAIN deleted) => resp.status = 404

\* C2 amended: once a Delete has answered 204 for an identifier below the
\* table's next auto-increment value, every later Get of it answers 404,
\* whatever creates, updates and deletes happen in between.
C2_DeletedStaysGone ==
    (/\ req.op = "get"
     /\ MySQLNum(req.id) \in DOMAIN deleted
     /\ deleted[MySQLNum(req.id)]) => resp.status = 404

C2_Witness ==
    /\ req.op = "get" /\ resp.status = 404 /\ dbUp
    /\ MySQLNum(req.id) \in DOMAIN deleted
    /\ deleted[MySQLNum(req.id)]
    /\ MySQLNum(req.id) > Cardinality(SeedRows)
    /\ autoInc > MySQLNum(req.id) + 1

\* C3: an Update answered 200 leaves the row of the path identifier with the
\* body's name and email and with that identifier (the body's id is ignored),
\* and changes no other row and not the number of rows.
C3_UpdateFrame ==
    [][(ReqStep("update") /\ resp'.status = 200) =>
         LET n == Atoi(req'.id).val
             u == ShouldBindJSON(req'.body).user
         IN  /\ resp'.user = [ID |-> n, Name |-> u.Name, Email |-> u.Email]
             /\ \A r \in users' : r.id = n => (r.name = u.Name /\ r.email = u.Email)
             /\ Ids(users') = Ids(users)
             /\ Cardinality(users') = Cardinality(users)
             /\ \A r \in users : r.id # n => r \in users']_vars

C3_Witness ==
    /\ req.op = "update" /\ resp.status = 200
    /\ "id" \in DOMAIN req.body.fields
    /\ req.body.fields["id"].v # Atoi(req.id).val
    /\ \E r \in users : r.id = Atoi(req.id).val /\ r.name = Bob
    /\ \E r \in users : r.id # Atoi(req.id).val

C5_BadRequest ==
    [][(\/ ReqStep("update") /\ Atoi(req'.id).err
        \/ (ReqStep("create") \/ ReqStep("update")) /\ ShouldBindJSON(req'.body).err)
         => (/\ resp'.status = 400
             /\ stmts' = 0
             /\ users' = users
             /\ autoInc' = autoInc)]_vars

C5_Witness ==
    /\ req.op = "update" /\ resp.status = 400 /\ stmts = 0
    /\ Atoi(req.id).err
    /\ ~ShouldBindJSON(req.body).err
    /\ WhereId(users, MySQLNum(req.id)) # {}
    /\ dbUp

UniqueIds ==
    /\ \A r1, r2 \in users : r1.id = r2.id => r1 = r2
    /\ \A r \in users : r.id > 0 /\ r.id < autoInc

\* C6: no two stored rows share an identifier; every identifier is a positive
\* integer taken from the table's auto-increment counter, whatever id the
\* request body carries; no operation changes the identifier of a stored row.
C6_Identifiers ==
    /\ []UniqueIds
    /\ [][/\ (ReqStep("create") /\ resp'.status = 201) =>
               LET u == ShouldBindJSON(req'.body).user
               IN  /\ resp'.user = [ID |-> autoInc, Name |-> u.Name, Email |-> u.Email]
                   /\ users' = users \cup
                          {[id |-> autoInc, name |-> u.Name, email |-> u.Email]}
                   /\ autoInc \notin Ids(users)
                   /\ autoInc' > autoInc
          /\ ~(ReqStep("create") /\ resp'.status = 201) => Ids(users') \subseteq Ids(users)
          /\ ReqStep("update") => Ids(users') = Ids(users)]_vars

C6_Witness ==
    /\ req.op = "create" /\ resp.status = 201
    /\ "id" \in DOMAIN req.body.fields
    /\ resp.user.ID # req.body.fields["id"].v
    /\ \E r \in users : r.id = resp.user.ID /\ r.name = resp.user.Name
    /\ Cardinality(users) = MaxId

\* C7 as stated: every request a handler answers issued exactly one SQL
\* statement, error answers included.
C7_ExactlyOneStatement ==
    resp.kind # "none" => stmts = 1

\* C7 amended: every request a handler answers issued exactly one SQL
\* statement, except those answered 400 (a non-numeric identifier or an
\* undecodable body), which are answered before any statement is issued.
C7_OneStatementUnless400 ==
    resp.kind # "none" => stmts = (IF resp.status = 400 THEN 0 ELSE 1)

C7_Witness ==
    /\ req.op = "create" /\ resp.status = 500 /\ stmts = 1

\* C8: when the database is unreachable at startup, main terminates before
\* it registers routes and serves requests.
C8_FailsToStart ==
    [][(pc = "start" /\ ~dbUp) => pc' # "serving"]_vars

\* C9: an Update (numeric id, decodable body) or Delete addressed to an
\* identifier that matches no row leaves the table as it was and answers 200
\* with the submitted id and body, respectively 204; it answers 500 only when
\* the storage statement errors (the server does not answer, or it rejects a
\* Delete's non-numeric identifier), and then always.
C9_NoRowMatched ==
    [][/\ (/\ ReqStep("update")
            /\ ~Atoi(req'.id).err
            /\ ~ShouldBindJSON(req'.body).err
            /\ WhereId(users, Atoi(req'.id).val) = {}) =>
               LET u == ShouldBindJSON(req'.body).user
               IN  /\ users' = users
                   /\ IF dbUp
                      THEN resp' = JSONUser(200, [ID |-> Atoi(req'.id).val,
                                                  Name |-> u.Name, Email |-> u.Email])
                      ELSE resp'.status = 500
       /\ (ReqStep("delete") /\ WhereId(users, MySQLNum(req'.id)) = {}) =>
               /\ users' = users
               /\ resp'.status \in {204, 500}
               /\ ~dbUp => resp'.status = 500
               /\ (dbUp /\ ~Atoi(req'.id).err) => resp' = StatusOnly(204)]_vars

C9_Witness ==
    /\ req.op = "update" /\ resp.status = 200 /\ stmts = 1
    /\ WhereId(users, Atoi(req.id).val) = {}
    /\ resp.user.ID = Atoi(req.id).val
    /\ resp.user.Name = TooLong
    /\ Cardinality(users) = Cardinality(SeedRows)

\* C10: a Get never changes the table and answers 200 with the stored record
\* exactly when its query succeeds and a row matches the identifier; in every
\* other case it answers 404, never 500.
C10_GetOnly200Or404 ==
    [][ReqStep("get") =>
         LET m == WhereId(users, MySQLNum(req'.id))
         IN  /\ users' = users /\ autoInc' = autoInc
             /\ resp'.status \in {200, 404}
             /\ resp'.status = 200 <=> (dbUp /\ m # {})
             /\ resp'.status = 200 =>
                    \E r \in m : resp'.user = [ID |-> r.id, Name |-> r.name, Email |-> r.email]]_vars

C10_Witness ==
    /\ req.op = "get" /\ resp.status = 404 /\ ~dbUp
    /\ WhereId(users, MySQLNum(req.id)) # {}

====
